---------------------------- MODULE Spec2Model ----------------------------
(* Model of sphexa::sph::cuda::computeDensity and kernels::density        *)
(* (CUDA density offload of SPH-EXA).  The host runs computeDensity step   *)
(* by step; the NST streams run the work queued on them in FIFO order and  *)
(* concurrently with the host and with each other.  T (double) is modelled *)
(* on the integers: every input is chosen so that each division of the     *)
(* density formula is exact.                                               *)
EXTENDS Integers, Sequences, FiniteSets, TLC

(* ------------------------------ bounds -------------------------------- *)
NP == 3            \* number of particles, d.x.size()
MaxTasks == 3      \* longest task list drawn

(* ------------------------- program constants -------------------------- *)
NST == 2
threadsPerBlock == 256

Undef == 0 - 1                 \* an indeterminate int (uninitialised or out-of-bounds read)
GarbageVals == {0 - 7, 0 - 9}  \* what an indeterminate T may turn out to be
Streams == 0 .. (NST - 1)
Particles == 0 .. (NP - 1)

(* ------------------------------ inputs -------------------------------- *)
\* struct Task: clist, flattened neighbors (row stride ngmax), neighborsCount, ngmax.
TaskPair == [clist |-> <<0, 1>>, neighbors |-> <<1, 0>>, neighborsCount |-> <<1, 1>>, ngmax |-> 1]
TaskLone == [clist |-> <<2>>, neighbors |-> <<Undef>>, neighborsCount |-> <<0>>, ngmax |-> 1]
TaskEmpty == [clist |-> <<>>, neighbors |-> <<>>, neighborsCount |-> <<>>, ngmax |-> 1]
TaskWide == [clist |-> <<1>>, neighbors |-> <<0, 2>>, neighborsCount |-> <<2>>, ngmax |-> 2]
TaskPool == {TaskPair, TaskLone, TaskEmpty, TaskWide}

TaskLists == UNION {[1 .. len -> TaskPool] : len \in 0 .. MaxTasks}

\* Output array as the caller hands it in: one distinct value per particle.
\* Every slot of an output array carries, next to its value, the writer of
\* that value: <<t, tid>> for the kernel thread tid of task t (0-based),
\* HostWriter for the caller, NoWriter for memory nobody has written.
HostWriter == <<0 - 1, 0 - 1>>
NoWriter == <<0 - 2, 0 - 2>>
roBefore == [p \in Particles |-> [val |-> 100 + p, by |-> HostWriter]]

\* ParticlesData: two field sets.  The first is the two-particle scenario
\* extended to NP particles (mass 1, h 1, K 1, sincIndex 1, kernel value 1,
\* open box); the second has varying h and m, a periodic box and sincIndex 2.
FieldsUnit ==
    [x |-> [p \in Particles |-> p], y |-> [p \in Particles |-> 0], z |-> [p \in Particles |-> 0],
     h |-> [p \in Particles |-> 1], m |-> [p \in Particles |-> 1],
     wh |-> <<1, 1, 1, 1>>, whd |-> <<0, 0, 0, 0>>,
     bbox |-> [xmin |-> 0, xmax |-> NP, ymin |-> 0, ymax |-> NP, zmin |-> 0, zmax |-> NP,
              PBCx |-> FALSE, PBCy |-> FALSE, PBCz |-> FALSE],
     sincIndex |-> 1, K |-> 1, ro |-> roBefore]
FieldsVaried ==
    [x |-> [p \in Particles |-> 2 * p], y |-> [p \in Particles |-> 0], z |-> [p \in Particles |-> 0],
     h |-> [p \in Particles |-> IF p = 0 THEN 1 ELSE 2], m |-> [p \in Particles |-> p + 1],
     wh |-> <<3, 2, 2, 1>>, whd |-> <<0, 0, 0, 0>>,
     bbox |-> [xmin |-> 0, xmax |-> 2 * NP, ymin |-> 0, ymax |-> 2 * NP, zmin |-> 0, zmax |-> 2 * NP,
              PBCx |-> TRUE, PBCy |-> TRUE, PBCz |-> TRUE],
     sincIndex |-> 2, K |-> 8, ro |-> roBefore]
FieldSets == {FieldsUnit, FieldsVaried}

(* ------------------------------- state -------------------------------- *)
VARIABLES
    taskList,          \* const std::vector<Task>& taskList
    d,                 \* ParticleData& d (host)
    pc,                \* statement of computeDensity the host is at
    i,                 \* loop variable of the for loop the host is in
    ngmax,             \* local ngmax (line 50)
    largestChunkSize,  \* local largestChunkSize (line 52)
    endDeref,          \* the call dereferenced taskList.cend()
    streams,           \* streams[s]: state of the stream and its queued work
    ptr,               \* device pointer variables -> allocation id (0: not set)
    heap,              \* device allocator: live ids and ids handed out so far
    dev,               \* contents of device memory, by pointer variable
    kdone,             \* indices of the tasks whose kernel has run to completion
    call,              \* 1 in the caller's first call of computeDensity, 2 in its second
    first,             \* task list and returned d.ro of the first call, once it has returned
    launched,          \* the kernel launches made so far: task, stream and buffer slot of each
    grid,              \* a launch grid taken block by block (see GridBlock)
    mpi                \* Evrard::loadMPI on one rank: the members and locals it uses

vars == <<taskList, d, pc, i, ngmax, largestChunkSize, endDeref, streams, ptr, heap, dev, kdone,
          call, first, launched, grid, mpi>>


(* --------------------------- pure functions --------------------------- *)
Max(a, b) == IF a >= b THEN a ELSE b

Isqrt(n) == CHOOSE r \in 0 .. n : r * r <= n /\ n < (r + 1) * (r + 1)

RECURSIVE Pow(_, _)
Pow(b, e) == IF e <= 0 THEN 1 ELSE b * Pow(b, e - 1)

\* Minimum-image delta on one axis.
AxisDelta(delta, lo, hi, pbc) ==
    IF pbc /\ 2 * delta > hi - lo THEN delta - (hi - lo)
    ELSE IF pbc /\ 2 * delta < 0 - (hi - lo) THEN delta + (hi - lo)
    ELSE delta

distancePBC(bbox, hi, x1, y1, z1, x2, y2, z2) ==
    LET dx == AxisDelta(x1 - x2, bbox.xmin, bbox.xmax, bbox.PBCx)
        dy == AxisDelta(y1 - y2, bbox.ymin, bbox.ymax, bbox.PBCy)
        dz == AxisDelta(z1 - z2, bbox.zmin, bbox.zmax, bbox.PBCz)
    IN  Isqrt(dx * dx + dy * dy + dz * dz)

\* Kernel value at normalized distance v from the table over [0, 2]:
\* sample index floor(v / spacing) with spacing 2 / ltsize, first-order
\* correction from the derivative table, vanishing tail at and beyond 2.
wharmonic_lt_with_derivative(wh, whd, ltsize, v) ==
    LET idx == (v * ltsize) \div 2
    IN  IF idx >= ltsize THEN 0
        ELSE wh[idx + 1] + (whd[idx + 1] * (v * ltsize - 2 * idx)) \div ltsize

\* Read of element k (0-based) of a host vector; past its end the read is
\* out of bounds and yields an indeterminate int.
HostRead(vec, k) == IF k + 1 \in DOMAIN vec THEN vec[k + 1] ELSE Undef

\* Read of element k of a device int buffer; outside the buffer, or where
\* nothing was ever written, the value is indeterminate.
DevRead(buf, k) == IF k \in DOMAIN buf THEN buf[k] ELSE Undef

MaxClistSizeFront(tl) == Len(tl[1].clist)

\* std::max_element(...)->clist.size() over a non-empty list.
RECURSIVE MaxClistSize(_)
MaxClistSize(tl) ==
    IF Len(tl) = 1 THEN Len(tl[1].clist)
    ELSE Max(Len(tl[1].clist), MaxClistSize(Tail(tl)))

(* ------------------------- kernels::density --------------------------- *)
loopBoundPadded(nn, stride) == stride

\* Number of iterations of the neighbor loop of a thread whose
\* neighborsCount entry is nn and whose row stride is stride (line 31).
loopBound(nn, stride) == nn

\* The kernel's arguments are the fields of a: n, sincIndex, K, ngmax and
\* the slot whose d_clist / d_neighbors / d_neighborsCount it was given.
RECURSIVE densityLoop(_, _, _, _, _, _)
densityLoop(pj, nn, roloc, tid, a, dv) ==
    IF pj >= nn THEN roloc
    ELSE LET pi == DevRead(dv.clist[a.slot], tid)
             j == DevRead(dv.neighbors[a.slot], tid * a.ngmax + pj)
             dist == distancePBC(dv.bbox, dv.h[pi], dv.x[pi], dv.y[pi], dv.z[pi],
                                 dv.x[j], dv.y[j], dv.z[j])
             vloc == dist \div dv.h[pi]
             w == a.K * Pow(wharmonic_lt_with_derivative(dv.wh, dv.whd, Len(dv.wh), vloc), a.sincIndex)
             value == w \div (dv.h[pi] * dv.h[pi] * dv.h[pi])
         IN  densityLoop(pj + 1, nn, roloc + value * dv.m[j], tid, a, dv)

densityNoSelfTerm(tid, a, dv) ==
    densityLoop(0, DevRead(dv.neighborsCount[a.slot], tid), 0, tid, a, dv)

\* Value thread tid stores into ro[clist[tid]] (line 41).
density(tid, a, dv) ==
    LET pi == DevRead(dv.clist[a.slot], tid)
        nn == loopBound(DevRead(dv.neighborsCount[a.slot], tid), a.ngmax)
    IN  densityLoop(0, nn, 0, tid, a, dv) + (dv.m[pi] * a.K) \div (dv.h[pi] * dv.h[pi] * dv.h[pi])

\* Every index the thread reads through is a particle index: otherwise the
\* thread reads outside an array and what it stores is indeterminate.
ReadsDefined(tid, a, dv) ==
    LET nn == loopBound(DevRead(dv.neighborsCount[a.slot], tid), a.ngmax)
    IN  /\ DevRead(dv.clist[a.slot], tid) \in Particles
        /\ nn >= 0
        /\ \A pj \in 0 .. (nn - 1) :
              DevRead(dv.neighbors[a.slot], tid * a.ngmax + pj) \in Particles

\* Threads of the grid that pass "if (tid >= n) return" (lines 23-24).
ActiveThreads(n, blocksPerGrid) ==
    {tid \in 0 .. (blocksPerGrid * threadsPerBlock - 1) : tid < n}

KernelWriteAtTid(dv, p, v, who) ==
    [dv EXCEPT !.ro[who[2]] = [val |-> v, by |-> who]]

KernelWriteClobber(dv, p, v, who) ==
    [dv EXCEPT !.ro[p] = [val |-> v, by |-> who], !.m[p] = v]

\* The store of line 41: the only write a kernel thread makes.
KernelWrite(dv, p, v, who) == [dv EXCEPT !.ro[p] = [val |-> v, by |-> who]]


(* ------------------------------- Init --------------------------------- *)
NoBuffer == << >>
GarbageSizes == 0 .. 1     \* what the size read through cend() may turn out to be

NoGrid == [n |-> 0, block |-> 0, covered |-> {}, work |-> 0, idle |-> 0]

NoMPI == [n |-> 0, nrank |-> 0, rank |-> 0, count |-> 0, offset |-> 0,
          workload |-> << >>, displs |-> << >>, size |-> 0]

NoPointers ==
    [d_x |-> 0, d_y |-> 0, d_z |-> 0, d_h |-> 0, d_m |-> 0, d_ro |-> 0,
     d_wh |-> 0, d_whd |-> 0, d_bbox |-> 0,
     d_clist |-> [s \in Streams |-> 0],
     d_neighbors |-> [s \in Streams |-> 0],
     d_neighborsCount |-> [s \in Streams |-> 0]]

Init ==
    /\ taskList \in TaskLists
    /\ d \in FieldSets
    /\ pc = "sizes"
    /\ i = 0
    /\ ngmax = 0
    /\ largestChunkSize = 0
    /\ endDeref = FALSE
    /\ streams = [s \in Streams |-> [st |-> "none", q |-> << >>]]
    /\ ptr = NoPointers
    /\ heap = [live |-> {}, next |-> 0, bad |-> {}]
    /\ dev = [x |-> NoBuffer, y |-> NoBuffer, z |-> NoBuffer, h |-> NoBuffer, m |-> NoBuffer,
              ro |-> NoBuffer, wh |-> NoBuffer, whd |-> NoBuffer, bbox |-> NoBuffer,
              clist |-> [s \in Streams |-> NoBuffer],
              neighbors |-> [s \in Streams |-> NoBuffer],
              neighborsCount |-> [s \in Streams |-> NoBuffer]]
    /\ kdone = {}
    /\ call = 1
    /\ first = [taskList |-> << >>, ro |-> NoBuffer]
    /\ launched = << >>
    /\ grid = NoGrid
    /\ mpi = NoMPI

(* --------------------- host: sizes and streams ------------------------ *)
\* Lines 48-59.  On an empty list std::max_element returns cend() and the
\* "->clist.size()" reads through it: the size is indeterminate.
Sizes ==
    /\ pc = "sizes"
    /\ ngmax' = IF taskList = << >> THEN 0 ELSE taskList[1].ngmax
    /\ IF taskList = << >>
       THEN /\ endDeref' = TRUE
            /\ largestChunkSize' \in GarbageSizes
       ELSE /\ endDeref' = endDeref
            /\ largestChunkSize' = MaxClistSize(taskList)
    /\ pc' = "streamCreate"
    /\ i' = 0
    /\ UNCHANGED <<taskList, d, streams, ptr, heap, dev, kdone, call, first, launched, grid, mpi>>

\* Lines 66-67.
StreamCreate ==
    /\ pc = "streamCreate"
    /\ streams' = [streams EXCEPT ![i].st = "live"]
    /\ IF i + 1 < NST THEN i' = i + 1 /\ pc' = pc
                      ELSE i' = 0 /\ pc' = "mallocNp"
    /\ UNCHANGED <<taskList, d, ngmax, largestChunkSize, endDeref, ptr, heap, dev, kdone, call, first, launched, grid, mpi>>

(* -------------------------- host: allocation -------------------------- *)
\* utils::cudaMalloc(bytes, p1, p2, ...): allocates p1, p2, ... in turn and
\* stops at the first failure; k of the pointers get an allocation.
cudaMallocPtr(pt, hp, names, k) ==
    [nm \in DOMAIN pt |->
        IF \E idx \in 1 .. k : names[idx] = nm
        THEN hp.next + (CHOOSE idx \in 1 .. k : names[idx] = nm)
        ELSE pt[nm]]
cudaMallocHeap(hp, k) ==
    [hp EXCEPT !.live = hp.live \cup ((hp.next + 1) .. (hp.next + k)), !.next = hp.next + k]

\* CHECK_CUDA_ERR(err): an error ends the call on the spot.
CHECK_CUDA_ERR(ok, then) == IF ok THEN then ELSE "failed"

npNames == <<"d_x", "d_y", "d_z", "d_h", "d_m", "d_ro">>
ltNames == <<"d_wh", "d_whd">>

\* Line 79.  d_ro is never initialised: its contents are indeterminate.
MallocNp ==
    /\ pc = "mallocNp"
    /\ \E k \in 0 .. Len(npNames), g \in GarbageVals :
          /\ ptr' = cudaMallocPtr(ptr, heap, npNames, k)
          /\ heap' = cudaMallocHeap(heap, k)
          /\ dev' = IF k = Len(npNames)
                    THEN [dev EXCEPT !.ro = [p \in Particles |-> [val |-> g, by |-> NoWriter]]]
                    ELSE dev
          /\ pc' = CHECK_CUDA_ERR(k = Len(npNames), "mallocLt")
    /\ UNCHANGED <<taskList, d, i, ngmax, largestChunkSize, endDeref, streams, kdone, call, first, launched, grid, mpi>>

\* Line 80.
MallocLt ==
    /\ pc = "mallocLt"
    /\ \E k \in 0 .. Len(ltNames) :
          /\ ptr' = cudaMallocPtr(ptr, heap, ltNames, k)
          /\ heap' = cudaMallocHeap(heap, k)
          /\ pc' = CHECK_CUDA_ERR(k = Len(ltNames), "mallocBbox")
    /\ UNCHANGED <<taskList, d, i, ngmax, largestChunkSize, endDeref, streams, dev, kdone, call, first, launched, grid, mpi>>

\* Lines 81 and 83: d_bbox is allocated twice, the second allocation
\* overwrites the pointer to the first.
MallocBbox ==
    /\ pc \in {"mallocBbox", "mallocBboxAgain"}
    /\ \E k \in 0 .. 1 :
          /\ ptr' = cudaMallocPtr(ptr, heap, <<"d_bbox">>, k)
          /\ heap' = cudaMallocHeap(heap, k)
          /\ pc' = CHECK_CUDA_ERR(k = 1, IF pc = "mallocBbox" THEN "mallocBboxAgain" ELSE "mallocChunk")
    /\ i' = 0
    /\ UNCHANGED <<taskList, d, ngmax, largestChunkSize, endDeref, streams, dev, kdone, call, first, launched, grid, mpi>>

IntBuffer(cap) == [k \in 0 .. (cap - 1) |-> Undef]

\* Lines 84-85: d_clist[i] and d_neighborsCount[i], largestChunkSize ints each.
MallocChunk ==
    /\ pc = "mallocChunk"
    /\ \E k \in 0 .. 2 :
          /\ ptr' = [ptr EXCEPT !.d_clist[i] = IF k >= 1 THEN heap.next + 1 ELSE @,
                                !.d_neighborsCount[i] = IF k >= 2 THEN heap.next + 2 ELSE @]
          /\ heap' = cudaMallocHeap(heap, k)
          /\ dev' = IF k = 2
                    THEN [dev EXCEPT !.clist[i] = IntBuffer(largestChunkSize),
                                     !.neighborsCount[i] = IntBuffer(largestChunkSize)]
                    ELSE dev
          /\ pc' = CHECK_CUDA_ERR(k = 2, IF i + 1 < NST THEN pc ELSE "mallocNeighbors")
          /\ i' = IF k = 2 /\ i + 1 < NST THEN i + 1 ELSE 0
    /\ UNCHANGED <<taskList, d, ngmax, largestChunkSize, endDeref, streams, kdone, call, first, launched, grid, mpi>>

\* Lines 86-87: d_neighbors[i], largestChunkSize * ngmax ints.
MallocNeighbors ==
    /\ pc = "mallocNeighbors"
    /\ \E k \in 0 .. 1 :
          /\ ptr' = [ptr EXCEPT !.d_neighbors[i] = IF k = 1 THEN heap.next + 1 ELSE @]
          /\ heap' = cudaMallocHeap(heap, k)
          /\ dev' = IF k = 1
                    THEN [dev EXCEPT !.neighbors[i] = IntBuffer(largestChunkSize * ngmax)]
                    ELSE dev
          /\ pc' = CHECK_CUDA_ERR(k = 1, IF i + 1 < NST THEN pc ELSE "upload")
          /\ i' = IF k = 1 /\ i + 1 < NST THEN i + 1 ELSE 0
    /\ UNCHANGED <<taskList, d, ngmax, largestChunkSize, endDeref, streams, kdone, call, first, launched, grid, mpi>>

(* ----------------------- host: shared uploads ------------------------ *)
\* Lines 91-98: eight synchronous host-to-device copies, in this order.
uploadOrder == <<"x", "y", "z", "h", "m", "wh", "whd", "bbox">>

cudaMemcpyHostToDeviceFromX(dv, host, f) == [dv EXCEPT ![f] = host["x"]]

cudaMemcpyHostToDevice(dv, host, f) == [dv EXCEPT ![f] = host[f]]

\* First statement of the task loop for index k (line 100).
LoopHead(k) == IF k < Len(taskList) THEN "cpyClist" ELSE "copyBack"

Upload ==
    /\ pc = "upload"
    /\ dev' = cudaMemcpyHostToDevice(dev, d, uploadOrder[i + 1])
    /\ IF i + 1 < Len(uploadOrder) THEN i' = i + 1 /\ pc' = pc
                                   ELSE i' = 0 /\ pc' = LoopHead(0)
    /\ UNCHANGED <<taskList, d, ngmax, largestChunkSize, endDeref, streams, ptr, heap, kdone, call, first, launched, grid, mpi>>

(* -------------------------- host: task loop --------------------------- *)
sIdxHalves(k) == k \div NST

sIdx(k) == k % NST

bufferSlotShared(s) == 0

\* Lines 107-109: the per-stream buffers a task uses are those of index sIdx.
bufferSlot(s) == s

\* Work item queued on a stream.  kind: "clist", "neighbors",
\* "neighborsCount" (a transfer of len ints of task t into the buffers of
\* slot) or "kernel" (density<<<blocksPerGrid, threadsPerBlock>>> with the
\* arguments n, sincIndex, K, ngmax; todo: its threads still to run).
Transfer(kind, k, slot, len) ==
    [kind |-> kind, t |-> k, slot |-> slot, len |-> len,
     n |-> 0, sincIndex |-> 0, K |-> 0, ngmax |-> 0, blocksPerGrid |-> 0, todo |-> {}]

Enqueue(st, s, item) == [st EXCEPT ![s].q = Append(@, item)]

\* Line 115.
MemcpyAsyncClist ==
    /\ pc = "cpyClist"
    /\ LET n == Len(taskList[i + 1].clist)
       IN  streams' = Enqueue(streams, sIdx(i), Transfer("clist", i, bufferSlot(sIdx(i)), n))
    /\ pc' = "cpyNeighbors"
    /\ UNCHANGED <<taskList, d, i, ngmax, largestChunkSize, endDeref, ptr, heap, dev, kdone, call, first, launched, grid, mpi>>

\* Line 116: size_nNeighbors = n * ngmax, with the local ngmax of line 50.
MemcpyAsyncNeighbors ==
    /\ pc = "cpyNeighbors"
    /\ LET n == Len(taskList[i + 1].clist)
       IN  streams' = Enqueue(streams, sIdx(i), Transfer("neighbors", i, bufferSlot(sIdx(i)), n * ngmax))
    /\ pc' = "cpyCount"
    /\ UNCHANGED <<taskList, d, i, ngmax, largestChunkSize, endDeref, ptr, heap, dev, kdone, call, first, launched, grid, mpi>>

\* Line 117.
MemcpyAsyncCount ==
    /\ pc = "cpyCount"
    /\ LET n == Len(taskList[i + 1].clist)
       IN  streams' = Enqueue(streams, sIdx(i), Transfer("neighborsCount", i, bufferSlot(sIdx(i)), n))
    /\ pc' = "launch"
    /\ UNCHANGED <<taskList, d, i, ngmax, largestChunkSize, endDeref, ptr, heap, dev, kdone, call, first, launched, grid, mpi>>

blocksPerGrid(n) == (n + threadsPerBlock - 1) \div threadsPerBlock

launchStatusUnchecked(b) == TRUE

\* Status cudaGetLastError reports after a launch of b blocks (lines 124-126).
launchStatusOk(b) == b > 0

\* Lines 119-126: the launch and the check of its status.  A grid of zero
\* blocks is an invalid configuration: nothing is launched and
\* cudaGetLastError reports the error.
Launch ==
    /\ pc = "launch"
    /\ LET t == taskList[i + 1]
           n == Len(t.clist)
           b == blocksPerGrid(n)
           k == [kind |-> "kernel", t |-> i, slot |-> bufferSlot(sIdx(i)), len |-> 0,
                 n |-> n, sincIndex |-> d.sincIndex, K |-> d.K, ngmax |-> t.ngmax,
                 blocksPerGrid |-> b, todo |-> ActiveThreads(n, b)]
           ok == launchStatusOk(b)
       IN  /\ streams' = IF ok THEN Enqueue(streams, sIdx(i), k) ELSE streams
           /\ launched' = IF ok THEN Append(launched, [t |-> i, stream |-> sIdx(i), slot |-> k.slot])
                                 ELSE launched
           /\ pc' = CHECK_CUDA_ERR(ok, LoopHead(i + 1))
           /\ i' = IF ok THEN i + 1 ELSE i
    /\ UNCHANGED <<taskList, d, ngmax, largestChunkSize, endDeref, ptr, heap, dev, kdone, call, first, grid, mpi>>

(* ------------------------------ device -------------------------------- *)
CopyIntsShort(buf, vec, len) ==
    [k \in DOMAIN buf |-> IF k < len - 1 THEN HostRead(vec, k) ELSE buf[k]]

\* A transfer of len ints from a host vector into a device buffer.
CopyInts(buf, vec, len) ==
    [k \in DOMAIN buf |-> IF k < len THEN HostRead(vec, k) ELSE buf[k]]

\* The stream runs the transfer at the head of its queue.
RunTransfer(s) ==
    /\ pc # "failed"
    /\ streams[s].q # << >>
    /\ LET w == Head(streams[s].q)
           t == taskList[w.t + 1]
       IN  /\ w.kind # "kernel"
           /\ dev' = [dev EXCEPT ![w.kind][w.slot] = CopyInts(@, t[w.kind], w.len)]
    /\ streams' = [streams EXCEPT ![s].q = Tail(@)]
    /\ UNCHANGED <<taskList, d, pc, i, ngmax, largestChunkSize, endDeref, ptr, heap, kdone, call, first, launched, grid, mpi>>

\* One thread of the kernel at the head of the stream's queue runs (lines
\* 23-41); the kernel leaves the queue with its last thread.
RunThread(s) ==
    /\ pc # "failed"
    /\ streams[s].q # << >>
    /\ LET w == Head(streams[s].q)
       IN  /\ w.kind = "kernel"
           /\ \E tid \in w.todo :
                 /\ \E v \in (IF ReadsDefined(tid, w, dev) THEN {density(tid, w, dev)} ELSE GarbageVals) :
                       dev' = KernelWrite(dev, DevRead(dev.clist[w.slot], tid), v, <<w.t, tid>>)
                 /\ IF w.todo = {tid}
                    THEN /\ streams' = [streams EXCEPT ![s].q = Tail(@)]
                         /\ kdone' = kdone \cup {w.t}
                    ELSE /\ streams' = [streams EXCEPT ![s].q[1].todo = @ \ {tid}]
                         /\ kdone' = kdone
    /\ UNCHANGED <<taskList, d, pc, i, ngmax, largestChunkSize, endDeref, ptr, heap, call, first, launched, grid, mpi>>

(* --------------------- host: result and teardown ---------------------- *)
DefaultStreamIdleFirstOnly(st) == st[0].q = << >>

\* cudaMemcpy on the default stream starts only when no stream created by
\* cudaStreamCreate has work outstanding (comment of line 129).
DefaultStreamIdle(st) == \A s \in Streams : st[s].q = << >>

\* Line 130.
CopyBack ==
    /\ pc = "copyBack"
    /\ DefaultStreamIdle(streams)
    /\ d' = [d EXCEPT !.ro = dev.ro]
    /\ pc' = "streamDestroy"
    /\ i' = 0
    /\ UNCHANGED <<taskList, ngmax, largestChunkSize, endDeref, streams, ptr, heap, dev, kdone, call, first, launched, grid, mpi>>

\* Lines 132-133.
StreamDestroy ==
    /\ pc = "streamDestroy"
    /\ streams' = [streams EXCEPT ![i].st = "destroyed"]
    /\ IF i + 1 < NST THEN i' = i + 1 /\ pc' = pc
                      ELSE i' = 0 /\ pc' = "freeShared"
    /\ UNCHANGED <<taskList, d, ngmax, largestChunkSize, endDeref, ptr, heap, dev, kdone, call, first, launched, grid, mpi>>

\* utils::cudaFree(p1, p2, ...): frees each pointer in turn.
cudaFree(hp, ids) ==
    [hp EXCEPT !.live = @ \ ids, !.bad = @ \cup (ids \ hp.live)]

\* Line 135.
FreeShared ==
    /\ pc = "freeShared"
    /\ heap' = cudaFree(heap, {ptr.d_x, ptr.d_y, ptr.d_z, ptr.d_h, ptr.d_m, ptr.d_bbox,
                               ptr.d_ro, ptr.d_wh, ptr.d_whd})
    /\ pc' = "freeSlot"
    /\ i' = 0
    /\ UNCHANGED <<taskList, d, ngmax, largestChunkSize, endDeref, streams, ptr, dev, kdone, call, first, launched, grid, mpi>>

\* Lines 136-137; the call returns after the last iteration.
FreeSlot ==
    /\ pc = "freeSlot"
    /\ heap' = cudaFree(heap, {ptr.d_clist[i], ptr.d_neighbors[i], ptr.d_neighborsCount[i]})
    /\ IF i + 1 < NST THEN i' = i + 1 /\ pc' = pc
                      ELSE i' = 0 /\ pc' = "done"
    /\ UNCHANGED <<taskList, d, ngmax, largestChunkSize, endDeref, streams, ptr, dev, kdone, call, first, launched, grid, mpi>>

\* Any CUDA runtime call checked by CHECK_CUDA_ERR may report an error
\* (the allocations are covered by their own actions).
CheckedCalls == {"streamCreate", "upload", "cpyClist", "cpyNeighbors", "cpyCount",
                 "launch", "copyBack", "streamDestroy", "freeShared", "freeSlot"}
Fail ==
    /\ pc \in CheckedCalls
    /\ pc' = CHECK_CUDA_ERR(FALSE, pc)
    /\ UNCHANGED <<taskList, d, i, ngmax, largestChunkSize, endDeref, streams, ptr, heap, dev, kdone, call, first, launched, grid, mpi>>

Next ==
    \/ Sizes
    \/ StreamCreate
    \/ MallocNp
    \/ MallocLt
    \/ MallocBbox
    \/ MallocChunk
    \/ MallocNeighbors
    \/ Upload
    \/ MemcpyAsyncClist
    \/ MemcpyAsyncNeighbors
    \/ MemcpyAsyncCount
    \/ Launch
    \/ \E s \in Streams : RunTransfer(s)
    \/ \E s \in Streams : RunThread(s)
    \/ CopyBack
    \/ StreamDestroy
    \/ FreeShared
    \/ FreeSlot
    \/ Fail

Spec == Init /\ [][Next]_vars

(* ------------------------------ progress ------------------------------ *)
\* The statements of computeDensity: the host thread runs them one after
\* the other (lines 48-137).
HostStep ==
    \/ Sizes
    \/ StreamCreate
    \/ MallocNp
    \/ MallocLt
    \/ MallocBbox
    \/ MallocChunk
    \/ MallocNeighbors
    \/ Upload
    \/ MemcpyAsyncClist
    \/ MemcpyAsyncNeighbors
    \/ MemcpyAsyncCount
    \/ Launch
    \/ CopyBack
    \/ StreamDestroy
    \/ FreeShared
    \/ FreeSlot

\* Stream s executes the item at the head of its queue.
StreamStep(s) == RunTransfer(s) \/ RunThread(s)

\* The host thread keeps running and every stream eventually executes the
\* work queued on it.
MaxLiveTasks == 3
LiveTaskPool == {TaskPair, TaskLone, TaskEmpty}
LiveTaskLists == UNION {[1 .. len -> LiveTaskPool] : len \in 1 .. MaxLiveTasks}

\* The calls followed for progress: the non-empty lists of tasks of two
\* threads, one thread and no thread, over one field set (progress does not
\* depend on the field values).
InitLive ==
    /\ Init
    /\ taskList \in LiveTaskLists
    /\ d = FieldsUnit

SpecLive ==
    /\ InitLive
    /\ [][Next]_vars
    /\ WF_vars(HostStep)
    /\ \A s \in Streams : WF_vars(StreamStep(s))

(* ------------------------ the caller calls again ---------------------- *)
\* The task lists that hold the tasks of tl in some order.
Reorderings(tl) ==
    {[k \in 1 .. Len(tl) |-> tl[perm[k]]] : perm \in Permutations(1 .. Len(tl))}

\* After the first call has returned the caller calls computeDensity once
\* more, on the same ParticlesData and with the same tasks in any order.
\* The locals of the new call start afresh; the device allocator and the
\* host data are what the first call left.
CallAgain ==
    /\ pc = "done"
    /\ call = 1
    /\ first' = [taskList |-> taskList, ro |-> d.ro]
    /\ call' = 2
    /\ taskList' \in Reorderings(taskList)
    /\ pc' = "sizes"
    /\ i' = 0
    /\ ngmax' = 0
    /\ largestChunkSize' = 0
    /\ endDeref' = FALSE
    /\ streams' = [s \in Streams |-> [st |-> "none", q |-> << >>]]
    /\ ptr' = NoPointers
    /\ kdone' = {}
    /\ launched' = << >>
    /\ UNCHANGED <<d, heap, dev, grid, mpi>>

NextTwice == Next \/ CallAgain

SpecTwice == Init /\ [][NextTwice]_vars

(* --------------------------- the launch grid -------------------------- *)
\* One launch of kernels::density for n owned particles, followed block by
\* block: grid.block blocks have run, grid.covered are the positions of
\* clist their threads have processed, grid.work the number of threads that
\* processed a position, grid.idle the number that returned at line 24.
MaxGridN == 520

threadIndexInBlock(blockIdx, threadIdx) == threadIdx

\* Line 23: tid = blockDim.x * blockIdx.x + threadIdx.x.
threadIndex(blockIdx, threadIdx) == threadsPerBlock * blockIdx + threadIdx

InitGrid ==
    /\ taskList = << >>
    /\ d = FieldsUnit
    /\ pc = "grid"
    /\ i = 0
    /\ ngmax = 0
    /\ largestChunkSize = 0
    /\ endDeref = FALSE
    /\ streams = [s \in Streams |-> [st |-> "none", q |-> << >>]]
    /\ ptr = NoPointers
    /\ heap = [live |-> {}, next |-> 0, bad |-> {}]
    /\ dev = [x |-> NoBuffer, y |-> NoBuffer, z |-> NoBuffer, h |-> NoBuffer, m |-> NoBuffer,
              ro |-> NoBuffer, wh |-> NoBuffer, whd |-> NoBuffer, bbox |-> NoBuffer,
              clist |-> [s \in Streams |-> NoBuffer],
              neighbors |-> [s \in Streams |-> NoBuffer],
              neighborsCount |-> [s \in Streams |-> NoBuffer]]
    /\ kdone = {}
    /\ call = 1
    /\ first = [taskList |-> << >>, ro |-> NoBuffer]
    /\ launched = << >>
    /\ grid \in {[NoGrid EXCEPT !.n = n] : n \in 1 .. MaxGridN}
    /\ mpi = NoMPI

\* The threadsPerBlock threads of block grid.block run lines 23-27: a thread
\* with tid >= n returns, any other processes clist[tid].
GridBlock ==
    /\ pc = "grid"
    /\ grid.block < blocksPerGrid(grid.n)
    /\ LET lanes == 0 .. (threadsPerBlock - 1)
           returned == {thr \in lanes : threadIndex(grid.block, thr) >= grid.n}
           active == lanes \ returned
       IN  grid' = [grid EXCEPT !.block = @ + 1,
                                !.covered = @ \cup {threadIndex(grid.block, thr) : thr \in active},
                                !.work = @ + Cardinality(active),
                                !.idle = @ + Cardinality(returned)]
    /\ UNCHANGED <<taskList, d, pc, i, ngmax, largestChunkSize, endDeref, streams, ptr, heap,
                   dev, kdone, call, first, launched, mpi>>

NextGrid == GridBlock

SpecGrid == InitGrid /\ [][NextGrid]_vars

(* -------------------------- Evrard::loadMPI --------------------------- *)
\* loadMPI as one rank of nrank runs it for n particles.  pc and i are the
\* statement and the loop variable; mpi.size is the length of the rank's
\* arrays after the last resize.
MaxLoadN == 10
MaxRanks == 3

InitMPI ==
    /\ taskList = << >>
    /\ d = FieldsUnit
    /\ pc = "loadMPI"
    /\ i = 0
    /\ ngmax = 0
    /\ largestChunkSize = 0
    /\ endDeref = FALSE
    /\ streams = [s \in Streams |-> [st |-> "none", q |-> << >>]]
    /\ ptr = NoPointers
    /\ heap = [live |-> {}, next |-> 0, bad |-> {}]
    /\ dev = [x |-> NoBuffer, y |-> NoBuffer, z |-> NoBuffer, h |-> NoBuffer, m |-> NoBuffer,
              ro |-> NoBuffer, wh |-> NoBuffer, whd |-> NoBuffer, bbox |-> NoBuffer,
              clist |-> [s \in Streams |-> NoBuffer],
              neighbors |-> [s \in Streams |-> NoBuffer],
              neighborsCount |-> [s \in Streams |-> NoBuffer]]
    /\ kdone = {}
    /\ call = 1
    /\ first = [taskList |-> << >>, ro |-> NoBuffer]
    /\ launched = << >>
    /\ grid = NoGrid
    /\ \E n \in 1 .. MaxLoadN : \E nrank \in 1 .. MaxRanks : \E rank \in 0 .. (nrank - 1) :
          /\ n >= nrank
          /\ mpi = [NoMPI EXCEPT !.n = n, !.nrank = nrank, !.rank = rank,
                                 !.count = n, !.size = 0]

\* Line 80: int offset = n % count.
offset(n, count, nrank) == n % count

\* Lines 79-86.
LoadMPIHead ==
    /\ pc = "loadMPI"
    /\ LET count == mpi.n \div mpi.nrank
           off == offset(mpi.n, count, mpi.nrank)
       IN  mpi' = [mpi EXCEPT !.count = count,
                              !.offset = off,
                              !.workload = [r \in 0 .. (mpi.nrank - 1) |->
                                               IF r = 0 THEN count + off ELSE 0],
                              !.displs = [r \in 0 .. (mpi.nrank - 1) |-> 0]]
    /\ i' = 1
    /\ pc' = "loadMPILoop"
    /\ UNCHANGED <<taskList, d, ngmax, largestChunkSize, endDeref, streams, ptr, heap, dev,
                   kdone, call, first, launched, grid>>

\* Lines 88-92: one iteration, or the exit of the loop.
LoadMPILoop ==
    /\ pc = "loadMPILoop"
    /\ IF i < mpi.nrank
       THEN /\ mpi' = [mpi EXCEPT !.workload[i] = mpi.count,
                                  !.displs[i] = mpi.displs[i - 1] + mpi.workload[i - 1]]
            /\ i' = i + 1
            /\ pc' = pc
       ELSE /\ mpi' = mpi
            /\ i' = i
            /\ pc' = "loadMPIScatter"
    /\ UNCHANGED <<taskList, d, ngmax, largestChunkSize, endDeref, streams, ptr, heap, dev,
                   kdone, call, first, launched, grid>>

\* Lines 94-128: rank 0 adds offset to count, loads the n particles and
\* scatters them; every rank ends with arrays of count elements.
LoadMPIScatter ==
    /\ pc = "loadMPIScatter"
    /\ LET count == IF mpi.rank = 0 THEN mpi.count + mpi.offset ELSE mpi.count
       IN  mpi' = [mpi EXCEPT !.count = count, !.size = count]
    /\ pc' = "loadMPIDone"
    /\ UNCHANGED <<taskList, d, i, ngmax, largestChunkSize, endDeref, streams, ptr, heap, dev,
                   kdone, call, first, launched, grid>>

NextMPI ==
    \/ LoadMPIHead
    \/ LoadMPILoop
    \/ LoadMPIScatter

SpecMPI == InitMPI /\ [][NextMPI]_vars

(* ============================ properties ============================== *)
TaskIndices == 0 .. (Len(taskList) - 1)
Referenced(p) == \E t \in 1 .. Len(taskList) : \E k \in 1 .. Len(taskList[t].clist) :
                    taskList[t].clist[k] = p

\* Stream s runs thread tid of the kernel at the head of its queue in this step.
ThreadRuns(s, tid) ==
    /\ streams[s].q # << >>
    /\ Head(streams[s].q).kind = "kernel"
    /\ tid \in Head(streams[s].q).todo
    /\ \/ streams'[s].q = Tail(streams[s].q)
       \/ /\ streams'[s].q # << >>
          /\ Head(streams'[s].q).t = Head(streams[s].q).t
          /\ Head(streams'[s].q).kind = "kernel"
          /\ tid \notin Head(streams'[s].q).todo

\* C1: the final device-to-host copy of ro is made only when no stream has
\* a transfer or a kernel outstanding and the kernel of every task of the
\* list has run to completion.
C1_CopyAfterAllWork ==
    [][(pc = "copyBack" /\ pc' = "streamDestroy")
          => /\ \A s \in Streams : streams[s].q = << >>
             /\ kdone = TaskIndices
             /\ d'.ro = dev.ro]_vars

C1_Witness ==
    /\ pc = "streamDestroy"
    /\ Len(taskList) >= 3
    /\ kdone = TaskIndices

\* C2: after the call has returned, the output slot of every particle that
\* is in the clist of some task holds a value stored in this call by a
\* kernel thread whose clist entry is that particle.
C2_ReferencedWritten ==
    pc = "done" =>
        \A p \in Particles : Referenced(p) =>
            LET by == d.ro[p].by
            IN  /\ by[1] \in TaskIndices
                /\ by[2] + 1 \in DOMAIN taskList[by[1] + 1].clist
                /\ taskList[by[1] + 1].clist[by[2] + 1] = p
                /\ by[1] \in kdone

C2_Witness ==
    /\ pc = "done"
    /\ Len(taskList) >= 2
    /\ \A p \in 0 .. 2 : Referenced(p) /\ d.ro[p].by[1] >= 0

\* C3: after the call has returned, every particle that is in no clist has
\* the output value it had before the call.
C3_UnreferencedUntouched ==
    (pc = "done" /\ call = 1) =>
        \A p \in Particles : ~Referenced(p) => d.ro[p].val = roBefore[p].val

\* The density formula of the claim, over the arguments the kernel was
\* given: row tid of the neighbor array, its first neighborsCount entries.
NeighborRow(tid, a, dv) ==
    [pj \in 1 .. DevRead(dv.neighborsCount[a.slot], tid) |->
        DevRead(dv.neighbors[a.slot], tid * a.ngmax + pj - 1)]
kernelValue(dv, v) == wharmonic_lt_with_derivative(dv.wh, dv.whd, Len(dv.wh), v)
Cube(v) == v * v * v
SelfTerm(dv, a, p) == (dv.m[p] * a.K) \div Cube(dv.h[p])
NeighborTerm(dv, a, p, j) ==
    LET dist == distancePBC(dv.bbox, dv.h[p], dv.x[p], dv.y[p], dv.z[p], dv.x[j], dv.y[j], dv.z[j])
    IN  ((a.K * Pow(kernelValue(dv, dist \div dv.h[p]), a.sincIndex)) \div Cube(dv.h[p])) * dv.m[j]
RECURSIVE SumTerms(_, _, _, _)
SumTerms(dv, a, p, row) ==
    IF row = << >> THEN 0
    ELSE SumTerms(dv, a, p, SubSeq(row, 1, Len(row) - 1)) + NeighborTerm(dv, a, p, row[Len(row)])

\* C4: the value a kernel thread stores for its particle is the self-term
\* plus the sum of the neighbor terms over the first neighborsCount entries
\* of its neighbor row; with no neighbors it is the self-term alone, and in
\* the unit field set a particle with one neighbor gets 2.
C4_DensityFormula ==
    [][\A s \in Streams :
          \A tid \in (IF streams[s].q = << >> THEN {} ELSE Head(streams[s].q).todo) :
             (ThreadRuns(s, tid) /\ ReadsDefined(tid, Head(streams[s].q), dev)) =>
                 LET a == Head(streams[s].q)
                     p == dev.clist[a.slot][tid]
                     row == NeighborRow(tid, a, dev)
                 IN  /\ dev'.ro[p].val = SelfTerm(dev, a, p) + SumTerms(dev, a, p, row)
                     /\ row = << >> => dev'.ro[p].val = (d.m[p] * d.K) \div Cube(d.h[p])
                     /\ ( /\ Len(row) = 1
                          /\ d.K = 1 /\ d.sincIndex = 1
                          /\ d.m[p] = 1 /\ d.h[p] = 1 /\ d.m[row[1]] = 1
                          /\ kernelValue(dev, distancePBC(d.bbox, d.h[p], d.x[p], d.y[p], d.z[p],
                                                          d.x[row[1]], d.y[row[1]], d.z[row[1]])) = 1 )
                        => dev'.ro[p].val = 2]_vars

C4_Witness ==
    /\ d = FieldsUnit
    /\ taskList = <<TaskPair, TaskLone>>
    /\ dev.ro # NoBuffer
    /\ dev.ro[0] = [val |-> 2, by |-> <<0, 0>>]
    /\ dev.ro[1] = [val |-> 2, by |-> <<0, 1>>]
    /\ dev.ro[2] = [val |-> 1, by |-> <<1, 0>>]

NoSharedOwner(tl) ==
    \A t1, t2 \in 1 .. Len(tl) : \A k1 \in 1 .. Len(tl[t1].clist), k2 \in 1 .. Len(tl[t2].clist) :
        tl[t1].clist[k1] = tl[t2].clist[k2] => (t1 = t2 /\ k1 = k2)

\* C5: when no particle is owned twice, a second call with the tasks in
\* any other order returns the same output value for every particle as the
\* first call.
C5_TaskOrderIrrelevant ==
    (pc = "done" /\ call = 2 /\ NoSharedOwner(taskList)) =>
        \A p \in Particles : d.ro[p].val = first.ro[p].val

\* C6: a second call with the same task list and unchanged inputs returns
\* the same contents of the whole output array as the first call.
C6_Idempotent ==
    (pc = "done" /\ call = 2 /\ taskList = first.taskList) =>
        [p \in Particles |-> d.ro[p].val] = [p \in Particles |-> first.ro[p].val]

HostInputs == <<d.x, d.y, d.z, d.h, d.m, d.wh, d.whd, d.bbox, d.sincIndex, d.K>>
DeviceInputs == <<dev.x, dev.y, dev.z, dev.h, dev.m, dev.wh, dev.whd, dev.bbox,
                  dev.clist, dev.neighbors, dev.neighborsCount>>

\* C7: no step of the call changes the host inputs (x, y, z, h, m, wh, whd,
\* bbox, sincIndex, K) or the task list, and a kernel thread changes no
\* device buffer other than d_ro.
C7_OnlyRoChanges ==
    [][/\ HostInputs' = HostInputs
       /\ taskList' = taskList
       /\ \A s \in Streams :
             \A tid \in (IF streams[s].q = << >> THEN {} ELSE Head(streams[s].q).todo) :
                ThreadRuns(s, tid) => DeviceInputs' = DeviceInputs]_vars

C7_Witness ==
    /\ pc = "done"
    /\ kdone # {}
    /\ d.ro # roBefore
    /\ dev.m = d.m

\* C8: when the call returns, every device buffer allocated and every
\* stream created during the call has been released, exactly once.
C8_AllReleased ==
    pc = "done" =>
        /\ heap.live = {}
        /\ heap.bad = {}
        /\ \A s \in Streams : streams[s].st = "destroyed"

\* C9: when a CUDA call fails, every device buffer and stream acquired
\* earlier in the call has been released by the time the failure leaves
\* the call.
C9_ReleasedOnFailure ==
    pc = "failed" =>
        /\ heap.live = {}
        /\ \A s \in Streams : streams[s].st # "live"

\* C10: a call with an empty task list reads no element of the list,
\* launches no kernel and returns with d.ro unchanged.
C10_EmptyListNoOp ==
    taskList = << >> =>
        /\ ~endDeref
        /\ \A s \in Streams : streams[s].q = << >>
        /\ pc = "done" => d.ro = roBefore

\* The work items of a stream's queue, as a set.
Queued(s) == {streams[s].q[k] : k \in 1 .. Len(streams[s].q)}

\* Stream s runs the transfer at the head of its queue in this step.
TransferRuns(s) ==
    /\ streams[s].q # << >>
    /\ Head(streams[s].q).kind # "kernel"
    /\ streams'[s].q = Tail(streams[s].q)

RunnableThreads(s) == IF streams[s].q = << >> THEN {} ELSE Head(streams[s].q).todo

\* C11: when no particle index occurs twice in the clists of the call, a
\* kernel thread stores only into an output slot that no kernel thread of
\* the call has stored into before.
C11_OneWriterPerSlot ==
    [][NoSharedOwner(taskList) =>
          \A s \in Streams : \A tid \in RunnableThreads(s) :
             ThreadRuns(s, tid) =>
                 LET p == DevRead(dev.clist[Head(streams[s].q).slot], tid)
                 IN  /\ p \in Particles
                     /\ dev.ro[p].by = NoWriter
                     /\ dev'.ro[p].by = <<Head(streams[s].q).t, tid>>
                     /\ \A o \in Particles \ {p} : dev'.ro[o] = dev.ro[o]]_vars

C11_Witness ==
    /\ taskList = <<TaskPair, TaskLone>>
    /\ dev.ro # NoBuffer
    /\ dev.ro[0].by = <<0, 0>>
    /\ dev.ro[2].by = <<1, 0>>
    /\ dev.ro[1].by = NoWriter
    /\ streams[0].q # << >>

\* C12: a transfer into a buffer slot runs only when the kernel of every
\* earlier task launched on that slot has finished, and a kernel thread runs
\* only when the three transfers of its own task have completed, the slot
\* then holding exactly what they transferred.
C12_SlotReuseOrdered ==
    [][\A s \in Streams :
          /\ TransferRuns(s) =>
                LET w == Head(streams[s].q)
                IN  \A k \in 1 .. Len(launched) :
                       (launched[k].slot = w.slot /\ launched[k].t < w.t) => launched[k].t \in kdone
          /\ \A tid \in RunnableThreads(s) :
                ThreadRuns(s, tid) =>
                    LET a == Head(streams[s].q)
                        t == taskList[a.t + 1]
                    IN  /\ \A r \in Streams : \A w \in Queued(r) : w.kind # "kernel" => w.t # a.t
                        /\ \A k \in 0 .. (a.n - 1) :
                              /\ dev.clist[a.slot][k] = t.clist[k + 1]
                              /\ dev.neighborsCount[a.slot][k] = t.neighborsCount[k + 1]
                        /\ \A k \in 0 .. (a.n * ngmax - 1) :
                              dev.neighbors[a.slot][k] = HostRead(t.neighbors, k)]_vars

C12_Witness ==
    /\ taskList = <<TaskPair, TaskWide, TaskLone>>
    /\ 0 \in kdone
    /\ 1 \notin kdone
    /\ streams[0].q # << >>
    /\ Head(streams[0].q).kind = "kernel"
    /\ Head(streams[0].q).t = 2
    /\ dev.clist[0][0] = 2

\* C13: the kernel launches are those of the tasks of the list in list
\* order, one each, the task at position k on stream k mod NST with buffer
\* slot k mod NST; every queued work item of a task is on that stream and
\* for that slot; and when the loop is left every task has been launched.
Submission(k) == [t |-> k, stream |-> k % NST, slot |-> k % NST]
C13_EachTaskOnceInOrder ==
    /\ Len(launched) <= Len(taskList)
    /\ \A k \in 1 .. Len(launched) : launched[k] = Submission(k - 1)
    /\ \A s \in Streams : \A w \in Queued(s) : w.slot = w.t % NST /\ s = w.t % NST
    /\ pc \in {"copyBack", "streamDestroy", "freeShared", "freeSlot", "done"}
          => Len(launched) = Len(taskList)

C13_Witness ==
    /\ pc = "copyBack"
    /\ Len(taskList) = 3
    /\ Len(launched) = 3
    /\ launched[3] = [t |-> 2, stream |-> 0, slot |-> 0]
    /\ launched[2] = [t |-> 1, stream |-> 1, slot |-> 1]

\* C14: no queued transfer is longer than the destination buffer, whose
\* capacity comes from the largest clist of the list.
Capacity(buf) == Cardinality(DOMAIN buf)
C14_TransfersFit ==
    /\ pc \in {"cpyClist", "cpyNeighbors", "cpyCount", "launch"}
          => /\ \A t \in 1 .. Len(taskList) : Len(taskList[t].clist) <= largestChunkSize
             /\ \A s \in Streams : /\ Capacity(dev.clist[s]) = largestChunkSize
                                   /\ Capacity(dev.neighborsCount[s]) = largestChunkSize
                                   /\ Capacity(dev.neighbors[s]) = largestChunkSize * ngmax
    /\ \A s \in Streams : \A w \in Queued(s) :
          w.kind # "kernel" => w.len <= Capacity(dev[w.kind][w.slot])

C14_Witness ==
    /\ Len(taskList) >= 2
    /\ taskList[1] = TaskLone
    /\ taskList[2] = TaskPair
    /\ \E w \in Queued(1) : w.kind = "neighbors" /\ w.len = 2 /\ Capacity(dev.neighbors[1]) = 2

\* C15: one ngmax, that of the first task, is used throughout the call: the
\* row stride of every launched kernel is the ngmax that sized the neighbor
\* buffers and the transfers, so every neighbor index a thread reads lies
\* inside the data transferred for its task.
C15_SingleNgmax ==
    \A s \in Streams : \A w \in Queued(s) :
        w.kind = "kernel" =>
            /\ w.ngmax = ngmax
            /\ \A tid \in 0 .. (w.n - 1) :
                  \A pj \in 0 .. (taskList[w.t + 1].neighborsCount[tid + 1] - 1) :
                     tid * w.ngmax + pj < w.n * ngmax

\* The valid part of row tid holds particle indices only.
RowValid(tid, a, dv) ==
    /\ DevRead(dv.clist[a.slot], tid) \in Particles
    /\ DevRead(dv.neighborsCount[a.slot], tid) \in 0 .. a.ngmax
    /\ \A pj \in 0 .. (DevRead(dv.neighborsCount[a.slot], tid) - 1) :
          DevRead(dv.neighbors[a.slot], tid * a.ngmax + pj) \in Particles

\* Device memory with the padded entries of row tid (those from
\* neighborsCount[tid] up to the stride) replaced by q.
PadWith(dv, a, tid, q) ==
    LET nn == DevRead(dv.neighborsCount[a.slot], tid)
    IN  [dv EXCEPT !.neighbors[a.slot] =
            [k \in DOMAIN @ |->
                IF k >= tid * a.ngmax + nn /\ k < (tid + 1) * a.ngmax THEN q ELSE @[k]]]

\* C16: the value a thread stores does not depend on the padded entries of
\* its neighbor row: it is the value the kernel computes with any particle
\* index whatever in their place, so entries at and beyond neighborsCount
\* are not read.
C16_PaddingNeverRead ==
    [][\A s \in Streams : \A tid \in RunnableThreads(s) :
          (ThreadRuns(s, tid) /\ RowValid(tid, Head(streams[s].q), dev)) =>
              LET a == Head(streams[s].q)
                  p == dev.clist[a.slot][tid]
              IN  \A q \in Particles :
                     dev'.ro[p].val = density(tid, a, PadWith(dev, a, tid, q))]_vars

C16_Witness ==
    /\ d = FieldsVaried
    /\ taskList = <<TaskLone>>
    /\ dev.neighbors[0] # NoBuffer
    /\ dev.neighbors[0][0] = Undef
    /\ dev.ro # NoBuffer
    /\ dev.ro[2] = [val |-> 3, by |-> <<0, 0>>]

\* C17: a launch that reports an error ends the call at once: no work item
\* of a later task is ever queued, no later launch is made and d.ro is never
\* copied back.  (The launches that report an error are those of a grid of
\* zero blocks.)
C17_LaunchErrorStopsCall ==
    \A k \in 1 .. Len(taskList) :
        blocksPerGrid(Len(taskList[k].clist)) = 0 =>
            /\ \A s \in Streams : \A w \in Queued(s) :
                  w.t < k - 1 \/ (w.t = k - 1 /\ w.kind # "kernel")
            /\ Len(launched) <= k - 1
            /\ d.ro = roBefore
            /\ pc \notin {"copyBack", "streamDestroy", "freeShared", "freeSlot", "done"}

C17_Witness ==
    /\ pc = "failed"
    /\ taskList = <<TaskPair, TaskEmpty, TaskLone>>
    /\ Len(launched) = 1
    /\ i = 1
    /\ \E w \in Queued(1) : w.kind = "neighborsCount" /\ w.t = 1

\* C18: each shared input buffer is written once, by its upload, before any
\* work is queued on a stream; whenever a stream has work queued or a kernel
\* has been launched, every shared input buffer holds its host array.
SharedFields == {"x", "y", "z", "h", "m", "wh", "whd", "bbox"}
C18_SharedUploadedOnceFirst ==
    [][/\ \A f \in SharedFields :
             dev'[f] # dev[f] =>
                 /\ pc = "upload"
                 /\ f = uploadOrder[i + 1]
                 /\ dev[f] = NoBuffer
                 /\ dev'[f] = d[f]
                 /\ launched = << >>
                 /\ \A s \in Streams : streams[s].q = << >>
       /\ (launched' # << >> \/ \E s \in Streams : streams'[s].q # << >>)
             => \A f \in SharedFields : dev'[f] = d[f]]_vars

C18_Witness ==
    /\ pc = "cpyNeighbors"
    /\ i = 0
    /\ streams[0].q # << >>
    /\ \A f \in SharedFields : dev[f] = d[f]

\* C19: for a non-empty task list, when every stream eventually executes its
\* queued work, the call eventually ends: either a device operation has
\* failed, or every task has been submitted and its kernel has completed,
\* the result has been copied back and the streams and buffers have been
\* released.
C19_EventuallyReturns ==
    (taskList # << >>) =>
        <>(\/ pc = "failed"
           \/ /\ pc = "done"
              /\ Len(launched) = Len(taskList)
              /\ kdone = TaskIndices
              /\ d.ro = dev.ro
              /\ \A s \in Streams : streams[s].q = << >> /\ streams[s].st = "destroyed")

C19_Witness ==
    /\ pc = "done"
    /\ Len(taskList) = 3
    /\ Len(launched) = 3
    /\ kdone = TaskIndices
    /\ \A s \in Streams : streams[s].st = "destroyed"

\* C20: for n >= 1 the grid has ceil(n / 256) blocks; its threads process
\* positions below n only, no position by two threads, and once all blocks
\* have run every position of [0, n) has been processed by exactly one
\* thread and all the remaining threads have returned at once.
C20_OneThreadPerPosition ==
    pc = "grid" =>
        LET n == grid.n
            b == blocksPerGrid(n)
        IN  /\ (b - 1) * threadsPerBlock < n /\ n <= b * threadsPerBlock
            /\ grid.covered \subseteq 0 .. (n - 1)
            /\ grid.work = Cardinality(grid.covered)
            /\ grid.block = b =>
                  /\ grid.covered = 0 .. (n - 1)
                  /\ grid.work = n
                  /\ grid.idle = b * threadsPerBlock - n
                  /\ ActiveThreads(n, b) = grid.covered

C20_Witness ==
    /\ pc = "grid"
    /\ grid.n = 257
    /\ grid.block = 2
    /\ grid.covered = 0 .. 256
    /\ grid.idle = 255

\* C21: a task whose clist is empty is launched with a valid configuration
\* (a grid of at least one block), so its launch reports no error and the
\* call goes on to the remaining tasks.
C21_EmptyTaskTolerated ==
    pc = "launch" => blocksPerGrid(Len(taskList[i + 1].clist)) >= 1

\* The device buffers of slot s.
SlotBuffers(s) == {ptr.d_clist[s], ptr.d_neighbors[s], ptr.d_neighborsCount[s]}

\* The tasks launched on stream s so far.
LaunchedOn(s) == {launched[k].t : k \in {j \in 1 .. Len(launched) : launched[j].stream = s}}

\* C22: work is queued on a stream only while the stream exists (created,
\* not destroyed); a stream is destroyed, and a buffer of its slot freed,
\* only when the stream's queue is empty, every kernel launched on it has
\* completed and the final copy has been made.
C22_StreamLifetime ==
    [][\A s \in Streams :
          /\ Len(streams'[s].q) > Len(streams[s].q) =>
                streams[s].st = "live" /\ streams'[s].st = "live"
          /\ (streams'[s].st = "destroyed" /\ streams[s].st # "destroyed") =>
                /\ streams[s].st = "live"
                /\ streams[s].q = << >>
                /\ LaunchedOn(s) \subseteq kdone
                /\ d.ro = dev.ro
          /\ (\E b \in SlotBuffers(s) : b \in heap.live /\ b \notin heap'.live) =>
                /\ streams[s].q = << >>
                /\ streams[s].st = "destroyed"
                /\ LaunchedOn(s) \subseteq kdone
                /\ d.ro = dev.ro]_vars

C22_Witness ==
    /\ pc = "freeSlot"
    /\ i = 1
    /\ Len(taskList) = 3
    /\ LaunchedOn(0) = {0, 2}
    /\ LaunchedOn(1) = {1}
    /\ SlotBuffers(0) \cap heap.live = {}
    /\ \A s \in Streams : streams[s].st = "destroyed"

\* The particles MPI_Scatterv sends to rank r: workload[r] of them from
\* displs[r] on.
Slice(r) == mpi.displs[r] .. (mpi.displs[r] + mpi.workload[r] - 1)

RECURSIVE WorkloadSum(_)
WorkloadSum(r) == IF r < 0 THEN 0 ELSE mpi.workload[r] + WorkloadSum(r - 1)

\* C23: when loadMPI has run with n >= nrank >= 1, the workloads sum to n,
\* displs[0] = 0 and each displs[r] is displs[r-1] + workload[r-1], the
\* slices of the ranks cover [0, n) without gap or overlap, and the rank's
\* count (and the length of its arrays) is its workload entry.
C23_WorkloadsPartition ==
    pc = "loadMPIDone" =>
        /\ WorkloadSum(mpi.nrank - 1) = mpi.n
        /\ mpi.displs[0] = 0
        /\ \A r \in 1 .. (mpi.nrank - 1) : mpi.displs[r] = mpi.displs[r - 1] + mpi.workload[r - 1]
        /\ UNION {Slice(r) : r \in 0 .. (mpi.nrank - 1)} = 0 .. (mpi.n - 1)
        /\ \A r, q \in 0 .. (mpi.nrank - 1) : r # q => Slice(r) \cap Slice(q) = {}
        /\ mpi.count = mpi.workload[mpi.rank]
        /\ mpi.size = mpi.workload[mpi.rank]

=============================================================================
